---- MODULE Spec2Model ----
(***************************************************************************)
(* Source provenance merge of lambdas/src/main.py:                         *)
(* merge_results_with_cutouts, its local helper dedupe_sources, the        *)
(* coverage diagnostic _log_chunk_coverage, the steps of main around them, *)
(* and the SQS handler with the notifications it sends through             *)
(* HTTPProvider.send_extraction_results (lambdas/src/http_provider.py).    *)
(*                                                                         *)
(* Python values are modelled as follows.                                  *)
(*   dict      a function whose DOMAIN is the set of keys that are present *)
(*   list      a sequence                                                  *)
(*   None      the string None (a value no identifier of the model uses)   *)
(*   list|None a record [null, items] (PyList / NoneList)                  *)
(*   a value that is not a dict, where a dict is expected: a function with *)
(*             the single key <type>, holding the name of its Python type  *)
(***************************************************************************)
EXTENDS Integers, Sequences, FiniteSets, TLC

VARIABLES
    contract_result,     \* argument: Pass-A units (list of dict)
    installment_result,  \* argument: Pass-B units (list of dict)
    s3_cutout_paths,     \* argument: "unit{N}_{field}" -> list of locators
    merged_units,        \* the list the loop of line 222 accumulates
    pc,                  \* position in merge_results_with_cutouts
    sources,             \* argument of a direct call of dedupe_sources
    filtered,            \* result of dedupe_sources(sources)
    refiltered,          \* result of dedupe_sources(filtered)
    dpc,                 \* position of the direct dedupe_sources calls
    missing,             \* the lists `missing` of the _log_chunk_coverage calls
    bucket_name,         \* main: the bucket_name argument
    cutout_paths,        \* main: what extract_cutouts returned (line 774)
    merged_output,       \* main: merged_notification_payload.json, if written
    upload_returned,     \* main: upload_cutouts_to_s3 returned (line 792)
    env,                 \* handler: os.environ
    event,               \* handler: the SQS event
    record_idx,          \* handler: position of the loop of line 384
    hpc,                 \* handler: position within the record
    contract_id,         \* handler: local of the loop body (line 385)
    output_path,         \* handler: local of the loop body (line 386)
    sent,                \* the requests HTTPProvider posted, with their results
    outcomes             \* handler: how the processing of each record ended

vars == <<contract_result, installment_result, s3_cutout_paths, merged_units,
          pc, sources, filtered, refiltered, dpc, missing,
          bucket_name, cutout_paths, merged_output, upload_returned,
          env, event, record_idx, hpc, contract_id, output_path, sent,
          outcomes>>

mainVars == <<bucket_name, cutout_paths, merged_output, upload_returned>>

handlerVars == <<env, event, record_idx, hpc, contract_id, output_path, sent,
                 outcomes>>

mergeVars == <<contract_result, installment_result, s3_cutout_paths,
               merged_units, pc>>

dedupeVars == <<sources, filtered, refiltered, dpc>>

----------------------------------------------------------------------------
(* Bounds of the model                                                     *)

MaxDedupeLen == 4   \* longest list handed directly to dedupe_sources
MaxSources == 2     \* longest sources list of a unit in the merge
MaxUnits == 2       \* longest Pass-A / Pass-B list
MaxRecords == 2     \* longest event['Records'] handed to handler

----------------------------------------------------------------------------
(* Python values                                                           *)

None == "<None>"

EmptyDict == [k \in {} |-> None]

\* dict.get(k, default)
DictGet(d, k, default) == IF k \in DOMAIN d THEN d[k] ELSE default

\* dict.get(k)
Get(d, k) == DictGet(d, k, None)

\* d[k] = v on a copy of d
DictSet(d, k, v) == [x \in DOMAIN d \cup {k} |-> IF x = k THEN v ELSE d[x]]

\* a.update(b) on a copy of a
DictUpdate(a, b) ==
    [x \in DOMAIN a \cup DOMAIN b |-> IF x \in DOMAIN b THEN b[x] ELSE a[x]]

PyList(items) == [null |-> FALSE, items |-> items]

NoneList == [null |-> TRUE, items |-> <<>>]

\* `sources or []`: None and the empty list both iterate as the empty list
OrEmpty(l) == IF l.null THEN <<>> ELSE l.items

\* a value of another type in a place where the code expects a dict
NotADict(type) == [k \in {"<type>"} |-> type]

\* whether x has the dict methods (get, copy, update) the code calls on it;
\* calling one on None, a list or a str raises AttributeError
IsDict(x) == "<type>" \notin DOMAIN x

\* variant of dict_copy: the dict itself is used, not a copy
dict_copy_alias(d) == [value |-> d, shared |-> TRUE]

\* d.copy(): a new dict with the items of d, sharing no storage with d
dict_copy(d) == [value |-> d, shared |-> FALSE]

\* str(x) inside an f-string
Str(x) == IF x = None THEN "None" ELSE x

----------------------------------------------------------------------------
(* dedupe_sources, main.py:210-219                                         *)

\* key = (source.get('field'), source.get('chunk_id'))
source_key(source) == <<Get(source, "field"), Get(source, "chunk_id")>>

\* variant of dedupe_loop: a repeated key replaces the kept citation
RECURSIVE dedupe_loop_keep_last(_, _, _)
dedupe_loop_keep_last(rest, seen, acc) ==
    IF rest = <<>> THEN acc
    ELSE LET source == Head(rest)
             key == source_key(source)
         IN  IF key \in seen
             THEN dedupe_loop_keep_last(Tail(rest), seen,
                      [i \in 1..Len(acc) |->
                          IF source_key(acc[i]) = key THEN source ELSE acc[i]])
             ELSE dedupe_loop_keep_last(Tail(rest), seen \cup {key},
                                        Append(acc, source))

\* variant of dedupe_loop: a skipped duplicate removes its key from seen
RECURSIVE dedupe_loop_forgets(_, _, _)
dedupe_loop_forgets(rest, seen, acc) ==
    IF rest = <<>> THEN acc
    ELSE LET source == Head(rest)
             key == source_key(source)
         IN  IF key \in seen
             THEN dedupe_loop_forgets(Tail(rest), seen \ {key}, acc)
             ELSE dedupe_loop_forgets(Tail(rest), seen \cup {key},
                                      Append(acc, source))

\* variant of dedupe_loop: a None chunk_id never matches a seen key
RECURSIVE dedupe_loop_null_distinct(_, _, _)
dedupe_loop_null_distinct(rest, seen, acc) ==
    IF rest = <<>> THEN acc
    ELSE LET source == Head(rest)
             key == source_key(source)
         IN  IF key \in seen /\ key[2] # None
             THEN dedupe_loop_null_distinct(Tail(rest), seen, acc)
             ELSE dedupe_loop_null_distinct(Tail(rest), seen \cup {key},
                                            Append(acc, source))

\* the for loop of lines 213-218 over the rest of the input
RECURSIVE dedupe_loop(_, _, _)
dedupe_loop(rest, seen, acc) ==
    IF rest = <<>> THEN acc
    ELSE LET source == Head(rest)
             key == source_key(source)
         IN  IF key \in seen
             THEN dedupe_loop(Tail(rest), seen, acc)
             ELSE dedupe_loop(Tail(rest), seen \cup {key}, Append(acc, source))

dedupe_sources(l) == dedupe_loop(OrEmpty(l), {}, <<>>)

\* variant of dedupe_raises: `for source in sources`, None is iterated
dedupe_raises_without_or(l) ==
    l.null \/ \E i \in 1..Len(l.items) : ~IsDict(l.items[i])

\* whether dedupe_sources(l) raises: `sources or []` makes None iterable
\* (line 213), source.get needs every citation to be a dict (line 214)
dedupe_raises(l) == \E i \in 1..Len(OrEmpty(l)) : ~IsDict(OrEmpty(l)[i])

----------------------------------------------------------------------------
(* Inputs of the direct dedupe_sources calls                               *)

\* a citation {field, chunk_id, page}
Citation3(f, c, p) ==
    [k \in {"field", "chunk_id", "page"} |->
        IF k = "field" THEN f ELSE IF k = "chunk_id" THEN c ELSE p]

\* citations of two fields; chunk_id is an identifier, None or (last line)
\* missing; citations with the same key differ in page
CitationsWithPage ==
    {Citation3("buyerName", c, p) : c \in {"c1", None}, p \in {1, 2}}
    \cup {Citation3("buyerName", "c2", 1)}
    \cup {Citation3("total", c, 1) : c \in {"c1", None}}
    \cup {[k \in {"field", "page"} |-> IF k = "field" THEN "buyerName" ELSE 1]}

SeqsUpTo(S, n) == UNION {[1..m -> S] : m \in 0..n}

InitDedupeInputs ==
    /\ sources \in {NoneList} \cup {PyList(s) : s \in SeqsUpTo(CitationsWithPage, MaxDedupeLen)}
    /\ filtered = <<>>
    /\ refiltered = <<>>
    /\ dpc = "call"

\* filtered = dedupe_sources(sources)
CallDedupe ==
    /\ dpc = "call"
    /\ filtered' = dedupe_sources(sources)
    /\ dpc' = "again"
    /\ UNCHANGED <<sources, refiltered>>

\* refiltered = dedupe_sources(filtered)
CallDedupeAgain ==
    /\ dpc = "again"
    /\ refiltered' = dedupe_sources(PyList(filtered))
    /\ dpc' = "done"
    /\ UNCHANGED <<sources, filtered>>

InitNoMerge ==
    /\ contract_result = <<>>
    /\ installment_result = <<>>
    /\ s3_cutout_paths = EmptyDict
    /\ merged_units = <<>>
    /\ pc = "idle"

\* main was not called with a bucket, and no step of it after the agents ran
InitNoMain ==
    /\ bucket_name = None
    /\ cutout_paths = EmptyDict
    /\ merged_output = <<>>
    /\ upload_returned = FALSE

\* handler was not invoked
InitNoHandler ==
    /\ env = EmptyDict
    /\ event = [Records |-> <<>>]
    /\ record_idx = 0
    /\ hpc = "idle"
    /\ contract_id = None
    /\ output_path = None
    /\ sent = <<>>
    /\ outcomes = <<>>

\* no _log_chunk_coverage call was made
NoCoverage == [contract |-> <<>>, installment |-> <<>>]

InitNoCoverage == missing = NoCoverage

NextDedupe ==
    \/ CallDedupe /\ UNCHANGED <<mergeVars, missing, mainVars, handlerVars>>
    \/ CallDedupeAgain
       /\ UNCHANGED <<mergeVars, missing, mainVars, handlerVars>>

InitDedupe ==
    InitDedupeInputs /\ InitNoMerge /\ InitNoCoverage /\ InitNoMain
    /\ InitNoHandler

SpecDedupe == InitDedupe /\ [][NextDedupe]_vars

----------------------------------------------------------------------------
(* merge_results_with_cutouts, main.py:191-295                             *)

EmptyList == PyList(<<>>)

\* unit_idx < len(installment_result), lines 233 and 269 (unit_idx is 0-based)
has_installment_unit(unit_idx, installment) == unit_idx < Len(installment)

\* installment_result[unit_idx]
installment_unit_at(unit_idx, installment) == installment[unit_idx + 1]

Min(a, b) == IF a <= b THEN a ELSE b

Max(a, b) == IF a >= b THEN a ELSE b

\* variant of units_to_process: the last Pass-A unit is not visited
units_to_process_off_by_one(contract, installment) ==
    IF Len(contract) > 0 THEN Len(contract) - 1 ELSE 0

\* variant of units_to_process: zip(contract_result, installment_result)
units_to_process_zip(contract, installment) ==
    Min(Len(contract), Len(installment))

\* number of iterations of `for unit_idx, contract_unit in
\* enumerate(contract_result)`, line 222
units_to_process(contract, installment) == Len(contract)

\* variant of merge_unit_fields: Pass-B plans are appended to Pass-A plans
merge_unit_fields_extend(contract_unit, unit_idx, installment) ==
    LET base == DictGet(contract_unit, "unit", EmptyDict)
    IN  IF has_installment_unit(unit_idx, installment)
        THEN LET installment_unit == installment_unit_at(unit_idx, installment)
                 installment_plans ==
                     DictGet(DictGet(installment_unit, "unit", EmptyDict),
                             "installmentPlans", <<>>)
             IN  IF installment_plans # <<>>
                 THEN DictSet(base, "installmentPlans",
                              DictGet(base, "installmentPlans", <<>>)
                                  \o installment_plans)
                 ELSE base
        ELSE base

\* variant of merge_unit_fields: without the test of line 237
merge_unit_fields_always_set(contract_unit, unit_idx, installment) ==
    LET base == DictGet(contract_unit, "unit", EmptyDict)
    IN  IF has_installment_unit(unit_idx, installment)
        THEN LET installment_unit == installment_unit_at(unit_idx, installment)
                 installment_plans ==
                     DictGet(DictGet(installment_unit, "unit", EmptyDict),
                             "installmentPlans", <<>>)
             IN  DictSet(base, "installmentPlans", installment_plans)
        ELSE base

\* lines 227 and 235-238: the fields of the merged unit
merge_unit_fields(contract_unit, unit_idx, installment) ==
    LET base == DictGet(contract_unit, "unit", EmptyDict)
    IN  IF has_installment_unit(unit_idx, installment)
        THEN LET installment_unit == installment_unit_at(unit_idx, installment)
                 installment_plans ==
                     DictGet(DictGet(installment_unit, "unit", EmptyDict),
                             "installmentPlans", <<>>)
             IN  IF installment_plans # <<>>
                 THEN DictSet(base, "installmentPlans", installment_plans)
                 ELSE base
        ELSE base

\* variant of merge_unit_confidence: Pass-A wins on a shared key
merge_unit_confidence_contract_wins(contract_unit, unit_idx, installment) ==
    LET base == DictGet(contract_unit, "confidence", EmptyDict)
    IN  IF has_installment_unit(unit_idx, installment)
        THEN LET installment_confidence ==
                     DictGet(installment_unit_at(unit_idx, installment),
                             "confidence", EmptyDict)
             IN  DictUpdate(installment_confidence, base)
        ELSE base

\* variant of merge_unit_confidence: the confidence map is only filled in
\* together with Pass-B's
merge_unit_confidence_needs_installment(contract_unit, unit_idx, installment) ==
    LET base == DictGet(contract_unit, "confidence", EmptyDict)
    IN  IF has_installment_unit(unit_idx, installment)
        THEN LET installment_confidence ==
                     DictGet(installment_unit_at(unit_idx, installment),
                             "confidence", EmptyDict)
             IN  DictUpdate(base, installment_confidence)
        ELSE EmptyDict

\* lines 229 and 241-242: the confidence map of the merged unit
merge_unit_confidence(contract_unit, unit_idx, installment) ==
    LET base == DictGet(contract_unit, "confidence", EmptyDict)
    IN  IF has_installment_unit(unit_idx, installment)
        THEN LET installment_confidence ==
                     DictGet(installment_unit_at(unit_idx, installment),
                             "confidence", EmptyDict)
             IN  DictUpdate(base, installment_confidence)
        ELSE base

\* variant of field_key: the unit number is left out of the key
field_key_without_unit(unit_number, field) == "unit_" \o Str(field)

\* field_key = f"unit{unit_number}_{field}", lines 250 and 280
field_key(unit_number, field) ==
    "unit" \o ToString(unit_number) \o "_" \o Str(field)

\* variant of contract_source_entry: the last locator is used
contract_source_entry_last_wins(unit_number, source, s3_paths) ==
    LET field == Get(source, "field")
        chunk_id == Get(source, "chunk_id")
        s3_uris == DictGet(s3_paths, field_key(unit_number, field), <<>>)
        chunk_file_key ==
            IF s3_uris # <<>> THEN s3_uris[Len(s3_uris)]
            ELSE IF chunk_id # "calculated" THEN chunk_id ELSE None
    IN  [field |-> field, chunk_id |-> chunk_id,
         chunk_file_key |-> chunk_file_key]

\* variant of contract_source_entry: "calculated" is passed through
contract_source_entry_passthrough(unit_number, source, s3_paths) ==
    LET field == Get(source, "field")
        chunk_id == Get(source, "chunk_id")
        s3_uris == DictGet(s3_paths, field_key(unit_number, field), <<>>)
        chunk_file_key == IF s3_uris # <<>> THEN s3_uris[1] ELSE chunk_id
    IN  [field |-> field, chunk_id |-> chunk_id,
         chunk_file_key |-> chunk_file_key]

\* lines 246-266: one Pass-A citation turned into an entry of the result
contract_source_entry(unit_number, source, s3_paths) ==
    LET field == Get(source, "field")
        chunk_id == Get(source, "chunk_id")
        s3_uris == DictGet(s3_paths, field_key(unit_number, field), <<>>)
        chunk_file_key ==
            IF s3_uris # <<>> THEN s3_uris[1]
            ELSE IF chunk_id # "calculated" THEN chunk_id ELSE None
    IN  [field |-> field, chunk_id |-> chunk_id,
         chunk_file_key |-> chunk_file_key]

\* lines 245-266: the loop over the deduplicated Pass-A citations
contract_sources(unit_number, contract_unit, s3_paths) ==
    LET deduped == dedupe_sources(DictGet(contract_unit, "sources", EmptyList))
    IN  [i \in 1..Len(deduped) |->
            contract_source_entry(unit_number, deduped[i], s3_paths)]

\* line 277: any(s['field'] == field and s.get('chunk_id') == chunk_id
\*               for s in merged_unit['sources'])
already_in_sources(acc, field, chunk_id) ==
    \E i \in 1..Len(acc) :
        acc[i]["field"] = field /\ Get(acc[i], "chunk_id") = chunk_id

\* variant of installment_source_entry: "calculated" becomes None, as for
\* Pass-A
installment_source_entry_nulls_calculated(unit_number, source, s3_paths) ==
    LET field == Get(source, "field")
        chunk_id == Get(source, "chunk_id")
        s3_uris == DictGet(s3_paths, field_key(unit_number, field), <<>>)
        chunk_file_key ==
            IF s3_uris # <<>> THEN s3_uris[1]
            ELSE IF chunk_id # "calculated" THEN chunk_id ELSE None
    IN  [field |-> field, chunk_file_key |-> chunk_file_key]

\* lines 280-291: one Pass-B citation turned into an entry of the result
installment_source_entry(unit_number, source, s3_paths) ==
    LET field == Get(source, "field")
        chunk_id == Get(source, "chunk_id")
        s3_uris == DictGet(s3_paths, field_key(unit_number, field), <<>>)
        chunk_file_key == IF s3_uris # <<>> THEN s3_uris[1] ELSE chunk_id
    IN  [field |-> field, chunk_file_key |-> chunk_file_key]

\* lines 272-291: the loop over the deduplicated Pass-B citations, appending
\* to the sources accumulated so far
RECURSIVE append_installment_sources(_, _, _, _)
append_installment_sources(rest, acc, unit_number, s3_paths) ==
    IF rest = <<>> THEN acc
    ELSE LET source == Head(rest)
         IN  IF already_in_sources(acc, Get(source, "field"),
                                   Get(source, "chunk_id"))
             THEN append_installment_sources(Tail(rest), acc, unit_number,
                                             s3_paths)
             ELSE append_installment_sources(Tail(rest),
                      Append(acc, installment_source_entry(unit_number, source,
                                                           s3_paths)),
                      unit_number, s3_paths)

\* lines 244-291: the sources of the merged unit
merge_unit_sources(contract_unit, unit_idx, installment, s3_paths) ==
    LET unit_number == unit_idx + 1
        from_contract == contract_sources(unit_number, contract_unit,
                                          s3_paths)
    IN  IF has_installment_unit(unit_idx, installment)
        THEN LET installment_sources ==
                     dedupe_sources(
                         DictGet(installment_unit_at(unit_idx, installment),
                                 "sources", EmptyList))
             IN  append_installment_sources(installment_sources, from_contract,
                                            unit_number, s3_paths)
        ELSE from_contract

\* lines 223-291: the body of the loop for one unit
merge_unit(contract_unit, unit_idx, installment, s3_paths) ==
    [unit |-> merge_unit_fields(contract_unit, unit_idx, installment),
     sources |-> merge_unit_sources(contract_unit, unit_idx, installment,
                                    s3_paths),
     confidence |-> merge_unit_confidence(contract_unit, unit_idx,
                                          installment)]

\* whether the body of the loop raises for one unit: contract_unit.get
\* (line 227) and installment_unit.get (line 235) need dicts, and so do the
\* two dedupe_sources calls (lines 245 and 270)
unit_raises(contract_unit, unit_idx, installment) ==
    \/ ~IsDict(contract_unit)
    \/ /\ has_installment_unit(unit_idx, installment)
       /\ ~IsDict(installment_unit_at(unit_idx, installment))
    \/ /\ IsDict(contract_unit)
       /\ dedupe_raises(DictGet(contract_unit, "sources", EmptyList))
    \/ /\ has_installment_unit(unit_idx, installment)
       /\ IsDict(installment_unit_at(unit_idx, installment))
       /\ dedupe_raises(DictGet(installment_unit_at(unit_idx, installment),
                                "sources", EmptyList))

\* the Pass-A unit as the body of the loop leaves it: lines 227 and 229 copy
\* its fields and its confidence map before lines 238 and 242 write to them,
\* so that a write reaches the unit only through a dict that was not copied
contract_unit_after(contract_unit, unit_idx, installment) ==
    LET fields == dict_copy(DictGet(contract_unit, "unit", EmptyDict))
        conf == dict_copy(DictGet(contract_unit, "confidence", EmptyDict))
        written ==
            IF fields.shared /\ "unit" \in DOMAIN contract_unit
            THEN DictSet(contract_unit, "unit",
                         merge_unit_fields(contract_unit, unit_idx,
                                           installment))
            ELSE contract_unit
    IN  IF conf.shared /\ "confidence" \in DOMAIN contract_unit
        THEN DictSet(written, "confidence",
                     merge_unit_confidence(contract_unit, unit_idx,
                                           installment))
        ELSE written

\* enumerate index of the next iteration of the loop of line 222
unit_idx == Len(merged_units)

\* lines 222-293: one iteration of the loop, ending in merged_units.append
ProcessUnit ==
    /\ pc = "loop"
    /\ unit_idx < units_to_process(contract_result, installment_result)
    /\ ~unit_raises(contract_result[unit_idx + 1], unit_idx,
                    installment_result)
    /\ merged_units' =
           Append(merged_units,
                  merge_unit(contract_result[unit_idx + 1], unit_idx,
                             installment_result, s3_cutout_paths))
    /\ contract_result' =
           [contract_result EXCEPT ![unit_idx + 1] =
               contract_unit_after(contract_result[unit_idx + 1], unit_idx,
                                   installment_result)]
    /\ UNCHANGED <<installment_result, s3_cutout_paths, pc>>

\* lines 222-293: an iteration of the loop that raises; the exception
\* leaves merge_results_with_cutouts, which returns nothing
RaiseInUnit ==
    /\ pc = "loop"
    /\ unit_idx < units_to_process(contract_result, installment_result)
    /\ unit_raises(contract_result[unit_idx + 1], unit_idx,
                   installment_result)
    /\ pc' = "raised"
    /\ UNCHANGED <<contract_result, installment_result, s3_cutout_paths,
                   merged_units>>

\* variant of loop_exhausted: the loop does not see its end
loop_exhausted_never_equal(idx, n) == idx > n

\* line 222: enumerate(contract_result) has no further unit
loop_exhausted(idx, n) == idx >= n

\* line 295: return merged_units
Return ==
    /\ pc = "loop"
    /\ loop_exhausted(unit_idx,
                      units_to_process(contract_result, installment_result))
    /\ pc' = "done"
    /\ UNCHANGED <<contract_result, installment_result, s3_cutout_paths,
                   merged_units>>

----------------------------------------------------------------------------
(* Inputs of merge_results_with_cutouts                                    *)

\* unit field maps: buyerName and installmentPlans, each present or not
FieldMaps(names, planLists) ==
    {[k \in {"buyerName", "installmentPlans"} |->
         IF k = "buyerName" THEN n ELSE pl] : n \in names, pl \in planLists}
    \cup {[k \in {"buyerName"} |-> n] : n \in names}
    \cup {[k \in {"installmentPlans"} |-> pl] : pl \in planLists}
    \cup {EmptyDict}

ContractFieldMaps == FieldMaps({"Ana"}, {<<>>, <<"X">>})
InstallmentFieldMaps == FieldMaps({"Bob"}, {<<>>, <<"Y", "Z">>})

\* confidence maps over two keys, each present or not
ConfidenceMaps(k1, k2, labels) ==
    {[k \in {k1, k2} |-> IF k = k1 THEN a ELSE b] : a \in labels, b \in labels}
    \cup {[k \in {k1} |-> a] : a \in labels}
    \cup {[k \in {k2} |-> b] : b \in labels}
    \cup {EmptyDict}

ContractConfidences == ConfidenceMaps("f1", "f2", {"high", "low"})
InstallmentConfidences == ConfidenceMaps("f1", "f3", {"medium", "high"})

\* a unit record; the keys unit, sources and confidence may each be missing
Unit(fields, hasFields, srcs, hasSources, conf, hasConf) ==
    [k \in (IF hasFields THEN {"unit"} ELSE {})
           \cup (IF hasSources THEN {"sources"} ELSE {})
           \cup (IF hasConf THEN {"confidence"} ELSE {}) |->
        IF k = "unit" THEN fields ELSE IF k = "sources" THEN srcs ELSE conf]

MergeFields == {"buyerName", "total"}
MergeChunkIds == {"c1", "calculated", None}

Citations ==
    {[field |-> f, chunk_id |-> c] : f \in MergeFields, c \in MergeChunkIds}

\* the sources value of a unit: a list of citations or None
SourceLists ==
    {NoneList} \cup {PyList(l) : l \in SeqsUpTo(Citations, MaxSources)}

\* artifact maps over the keys of the given unit numbers: a key has no
\* entry, an empty list, or two locators
CutoutMaps(unitNumbers) ==
    LET keys == {field_key(n, f) : n \in unitNumbers, f \in MergeFields}
    IN  UNION {{[k \in present |->
                    IF k \in filled
                    THEN <<"s3://" \o k \o "/1", "s3://" \o k \o "/2">>
                    ELSE <<>>] : filled \in SUBSET present} :
               present \in SUBSET keys}

DefaultContractSources == PyList(<<[field |-> "buyerName", chunk_id |-> "c1"]>>)
DefaultFields == [buyerName |-> "Ana"]
DefaultConfidence == [f1 |-> "high"]

\* one Pass-A unit and at most one Pass-B unit, varying the field maps and
\* the confidence maps
InitFieldInputs ==
    /\ \E f \in ContractFieldMaps, hf \in BOOLEAN,
          c \in ContractConfidences, hc \in BOOLEAN :
          /\ hf \/ f = EmptyDict
          /\ hc \/ c = EmptyDict
          /\ contract_result =
                 <<Unit(f, hf, DefaultContractSources, TRUE, c, hc)>>
    /\ \/ installment_result = <<>>
       \/ \E f \in InstallmentFieldMaps, hf \in BOOLEAN,
             c \in InstallmentConfidences, hc \in BOOLEAN :
             /\ hf \/ f = EmptyDict
             /\ hc \/ c = EmptyDict
             /\ installment_result = <<Unit(f, hf, EmptyList, FALSE, c, hc)>>
    /\ s3_cutout_paths = EmptyDict

\* one Pass-A unit and at most one Pass-B unit, varying the citations and
\* the artifact map
InitSourceInputs ==
    /\ \E l \in SourceLists, hs \in BOOLEAN :
          /\ hs \/ l = EmptyList
          /\ contract_result =
                 <<Unit(DefaultFields, TRUE, l, hs, DefaultConfidence, TRUE)>>
    /\ \/ installment_result = <<>>
       \/ \E l \in SourceLists, hs \in BOOLEAN :
             /\ hs \/ l = EmptyList
             /\ installment_result =
                    <<Unit(EmptyDict, TRUE, l, hs, EmptyDict, TRUE)>>
    /\ s3_cutout_paths \in CutoutMaps({1})

ContractUnitSamples ==
    {Unit([buyerName |-> "Ana", installmentPlans |-> <<"X">>], TRUE,
          PyList(<<[field |-> "buyerName", chunk_id |-> "c1"],
                   [field |-> "total", chunk_id |-> "calculated"]>>), TRUE,
          [f1 |-> "high", f2 |-> "low"], TRUE),
     Unit([buyerName |-> "Bia"], TRUE,
          PyList(<<[field |-> "total", chunk_id |-> "c1"],
                   [field |-> "total", chunk_id |-> "c1"]>>), TRUE,
          EmptyDict, FALSE),
     EmptyDict}

InstallmentUnitSamples ==
    {Unit([installmentPlans |-> <<"Y", "Z">>], TRUE,
          PyList(<<[field |-> "total", chunk_id |-> "calculated"],
                   [field |-> "buyerName", chunk_id |-> "c2"]>>), TRUE,
          [f1 |-> "medium", f3 |-> "high"], TRUE),
     Unit([installmentPlans |-> <<>>], TRUE,
          PyList(<<[field |-> "total", chunk_id |-> "c1"],
                   [field |-> "total", chunk_id |-> None]>>), TRUE,
          EmptyDict, TRUE),
     EmptyDict}

\* the artifact maps of the multi-unit inputs: empty, one key, or every key
CutoutMapSamples ==
    LET keys == {field_key(n, f) : n \in 1..MaxUnits, f \in MergeFields}
        locs(k) == <<"s3://" \o k \o "/1", "s3://" \o k \o "/2">>
    IN  {EmptyDict} \cup {[k \in {key} |-> locs(k)] : key \in keys}
        \cup {[k \in keys |-> locs(k)]}

\* Pass-A and Pass-B lists of every length up to MaxUnits
InitUnitLists ==
    /\ contract_result \in SeqsUpTo(ContractUnitSamples, MaxUnits)
    /\ installment_result \in SeqsUpTo(InstallmentUnitSamples, MaxUnits)
    /\ s3_cutout_paths \in CutoutMapSamples

\* values that are not dicts: None, a list, a str
MalformedUnits == {NotADict("NoneType"), NotADict("list"), NotADict("str")}

\* Pass-A and Pass-B lists in which any unit may be a value that is not a
\* dict
InitMalformedInputs ==
    /\ contract_result \in SeqsUpTo({EmptyDict} \cup MalformedUnits, MaxUnits)
    /\ installment_result \in
           SeqsUpTo({EmptyDict} \cup MalformedUnits, MaxUnits)
    /\ s3_cutout_paths = EmptyDict

InitMerge ==
    /\ \/ InitFieldInputs
       \/ InitSourceInputs
       \/ InitUnitLists
       \/ InitMalformedInputs
    /\ merged_units = <<>>
    /\ pc = "loop"

InitNoDedupe ==
    /\ sources = EmptyList
    /\ filtered = <<>>
    /\ refiltered = <<>>
    /\ dpc = "idle"

Init ==
    InitMerge /\ InitNoDedupe /\ InitNoCoverage /\ InitNoMain /\ InitNoHandler

Next ==
    \/ ProcessUnit /\ UNCHANGED <<dedupeVars, missing, mainVars, handlerVars>>
    \/ RaiseInUnit /\ UNCHANGED <<dedupeVars, missing, mainVars, handlerVars>>
    \/ Return /\ UNCHANGED <<dedupeVars, missing, mainVars, handlerVars>>

Spec == Init /\ [][Next]_vars

\* Pass-A lists of units that may hold a value that is not a dict, Pass-B
\* lists of units, and an artifact map with no key or with every key
InitTerminatesInputs ==
    /\ contract_result \in
           SeqsUpTo(ContractUnitSamples \cup {NotADict("NoneType")}, MaxUnits)
    /\ installment_result \in
           SeqsUpTo(InstallmentUnitSamples \ {EmptyDict}, MaxUnits)
    /\ s3_cutout_paths \in
           {m \in CutoutMapSamples : Cardinality(DOMAIN m) # 1}

InitTerminates ==
    /\ InitTerminatesInputs
    /\ merged_units = <<>>
    /\ pc = "loop"
    /\ InitNoDedupe
    /\ InitNoCoverage
    /\ InitNoMain
    /\ InitNoHandler

\* the interpreter goes on executing the function as long as it has a
\* statement to execute
SpecTerminates == InitTerminates /\ [][Next]_vars /\ WF_vars(Next)

----------------------------------------------------------------------------
(* _log_chunk_coverage, main.py:297-309, as main calls it on the Pass-A     *)
(* list (line 595) and on the Pass-B list (line 622) before the merge       *)

\* variant of IsFalsy: `x is None`
IsFalsy_none_only(x) == x = None

\* `not x` for a chunk_id: None and the empty string are false
IsFalsy(x) == x \in {None, ""}

\* lines 300-302: the pairs one unit adds to missing
RECURSIVE unit_missing(_, _)
unit_missing(unit_number, srcs) ==
    IF srcs = <<>> THEN <<>>
    ELSE LET source == Head(srcs)
             rest == unit_missing(unit_number, Tail(srcs))
         IN  IF IsFalsy(Get(source, "chunk_id"))
             THEN <<<<unit_number, Get(source, "field")>>>> \o rest
             ELSE rest

\* lines 298-302: missing after the loop over the units from position
\* unit_number on; unit.get('sources', []) is iterated as it is
RECURSIVE coverage_missing(_, _)
coverage_missing(units, unit_number) ==
    IF unit_number > Len(units) THEN <<>>
    ELSE unit_missing(unit_number,
                      DictGet(units[unit_number], "sources", EmptyList).items)
         \o coverage_missing(units, unit_number + 1)

\* whether _log_chunk_coverage(label, units) raises: unit.get needs a dict
\* (line 300), `for source in unit.get('sources', [])` needs a value that
\* can be iterated, which None is not, and source.get needs a dict (line 301)
coverage_raises(units) ==
    \E i \in 1..Len(units) :
        \/ ~IsDict(units[i])
        \/ /\ IsDict(units[i])
           /\ LET l == DictGet(units[i], "sources", EmptyList)
              IN  l.null \/ \E j \in 1..Len(l.items) : ~IsDict(l.items[j])

\* variant of coverage_units_after: unit.pop('sources', []) for unit.get
coverage_units_after_pop(units) ==
    [i \in 1..Len(units) |->
        [k \in DOMAIN units[i] \ {"sources"} |-> units[i][k]]]

\* the list handed to _log_chunk_coverage as the call leaves it: lines
\* 299-302 only call get on the units and on their citations
coverage_units_after(units) == units

\* line 595: _log_chunk_coverage("Contract information", contract_result)
LogContractCoverage ==
    /\ pc = "coverage_contract"
    /\ ~coverage_raises(contract_result)
    /\ missing' = [missing EXCEPT
                      !.contract = coverage_missing(contract_result, 1)]
    /\ contract_result' = coverage_units_after(contract_result)
    /\ pc' = "coverage_installment"
    /\ UNCHANGED <<installment_result, s3_cutout_paths, merged_units>>

\* line 622: _log_chunk_coverage("Installment information",
\* installment_result)
LogInstallmentCoverage ==
    /\ pc = "coverage_installment"
    /\ ~coverage_raises(installment_result)
    /\ missing' = [missing EXCEPT
                      !.installment = coverage_missing(installment_result, 1)]
    /\ installment_result' = coverage_units_after(installment_result)
    /\ pc' = "display"
    /\ UNCHANGED <<contract_result, s3_cutout_paths, merged_units>>

\* a _log_chunk_coverage call that raises; main does not catch the exception
RaiseInCoverage ==
    /\ \/ pc = "coverage_contract" /\ coverage_raises(contract_result)
       \/ pc = "coverage_installment" /\ coverage_raises(installment_result)
    /\ pc' = "coverage_raised"
    /\ UNCHANGED <<contract_result, installment_result, s3_cutout_paths,
                   merged_units, missing>>

\* citations of the lists handed to _log_chunk_coverage: the chunk_id is
\* missing, None, empty, an identifier or "calculated"
CoverageCitations ==
    {[field |-> "buyerName", chunk_id |-> c] :
        c \in {None, "", "c1", "calculated"}}
    \cup {[k \in {"field"} |-> "buyerName"]}
    \cup {[field |-> "total", chunk_id |-> c] : c \in {None, "c1"}}

CoverageSourceLists ==
    {NoneList} \cup {PyList(l) : l \in SeqsUpTo(CoverageCitations, MaxSources)}

\* a unit with one citation that lacks a chunk_id
UnitMissingChunkId ==
    Unit(DefaultFields, TRUE, PyList(<<[k \in {"field"} |-> "total"]>>), TRUE,
         DefaultConfidence, TRUE)

CoverageInstallmentLists ==
    {<<>>,
     <<Unit([installmentPlans |-> <<"Y", "Z">>], TRUE,
            PyList(<<[field |-> "total", chunk_id |-> "calculated"],
                     [field |-> "installmentPlans", chunk_id |-> None]>>),
            TRUE, [f1 |-> "medium"], TRUE)>>,
     <<Unit(EmptyDict, TRUE, NoneList, TRUE, EmptyDict, TRUE)>>,
     <<EmptyDict, NotADict("str")>>}

\* what the agents returned: up to MaxUnits Pass-A units, the last of them
\* with any citations, and a Pass-B list that is empty, well-formed, has a
\* None sources list, or holds a value that is not a dict
InitCoverageInputs ==
    /\ \E n \in 0..(MaxUnits - 1), l \in CoverageSourceLists, hs \in BOOLEAN :
          /\ hs \/ l = EmptyList
          /\ contract_result =
                 [i \in 1..n |-> UnitMissingChunkId]
                 \o <<Unit(DefaultFields, TRUE, l, hs, DefaultConfidence,
                           TRUE)>>
    /\ installment_result \in CoverageInstallmentLists

----------------------------------------------------------------------------
(* main, main.py:490-911, from the return of the Pass-A agent (line 594)   *)
(* to the merged payload of step 7                                         *)

\* s3_cutout_paths = None (lines 786 and 803)
NoPaths == NotADict("NoneType")

\* main is called with job_id = contract_id (line 420)
job_id == "c-1"

\* line 687: source['unit_index'] = unit_idx, on the citations of the unit
\* itself (units_data is contract_result, line 659)
display_unit(unit_data, idx) ==
    IF "sources" \in DOMAIN unit_data
    THEN DictSet(unit_data, "sources",
                 PyList([i \in 1..Len(unit_data.sources.items) |->
                            DictSet(unit_data.sources.items[i], "unit_index",
                                    idx)]))
    ELSE unit_data

\* lines 649-739: the results are displayed
DisplayResults ==
    /\ pc = "display"
    /\ contract_result' = [u \in 1..Len(contract_result) |->
                              display_unit(contract_result[u], u - 1)]
    /\ pc' = "combine"
    /\ UNCHANGED <<installment_result, s3_cutout_paths, merged_units, missing,
                   mainVars>>

\* lines 753-767 for one unit of combined_result; contract_result.copy()
\* (line 746) copies the list, so that the unit is the Pass-A unit itself
combine_unit(combined_unit, installment_unit) ==
    LET installment_sources ==
            DictGet(installment_unit, "sources", EmptyList).items
        installment_plans ==
            DictGet(DictGet(installment_unit, "unit", EmptyDict),
                    "installmentPlans", <<>>)
        installment_confidence ==
            DictGet(installment_unit, "confidence", EmptyDict)
        extended == DictSet(combined_unit, "sources",
                            PyList(combined_unit.sources.items
                                       \o installment_sources))
        with_plans == DictSet(extended, "unit",
                              DictSet(DictGet(extended, "unit", EmptyDict),
                                      "installmentPlans", installment_plans))
    IN  DictSet(with_plans, "confidence",
                DictUpdate(DictGet(with_plans, "confidence", EmptyDict),
                           installment_confidence))

\* the positions at which combined_result[unit_idx]['sources'] (line 757)
\* raises KeyError
combine_raises_at(contract, installment) ==
    {u \in 1..Min(Len(contract), Len(installment)) :
        "sources" \notin DOMAIN contract[u]}

combine_raises(contract, installment) ==
    combine_raises_at(contract, installment) # {}

\* lines 749-770: the Pass-A units after the loop, which ends at the first
\* position that raises; a Pass-B unit beyond the Pass-A list is appended to
\* the copied list only
combine_results(contract, installment) ==
    LET stops == combine_raises_at(contract, installment)
        reached(u) == /\ u <= Len(installment)
                      /\ \A r \in stops : u < r
    IN  [u \in 1..Len(contract) |->
            IF reached(u) THEN combine_unit(contract[u], installment[u])
            ELSE contract[u]]

\* lines 745-770: the combination for the cutout extraction
CombineResults ==
    /\ pc = "combine"
    /\ ~combine_raises(contract_result, installment_result)
    /\ contract_result' = combine_results(contract_result, installment_result)
    /\ pc' = "extract"
    /\ UNCHANGED <<installment_result, s3_cutout_paths, merged_units, missing,
                   mainVars>>

\* line 757 raises KeyError and main ends
RaiseInCombine ==
    /\ pc = "combine"
    /\ combine_raises(contract_result, installment_result)
    /\ contract_result' = combine_results(contract_result, installment_result)
    /\ pc' = "main_raised"
    /\ UNCHANGED <<installment_result, s3_cutout_paths, merged_units, missing,
                   mainVars>>

\* what extract_cutouts may return: no cutout, or cutouts for two fields of
\* unit 1, two files for the first of them
CutoutPathChoices ==
    {EmptyDict,
     [k \in {field_key(1, "buyerName"), field_key(1, "total")} |->
         IF k = field_key(1, "buyerName")
         THEN <<"/tmp/output/cutouts/a.png", "/tmp/output/cutouts/b.png">>
         ELSE <<"/tmp/output/cutouts/c.png">>]}

\* lines 773-780: the cutout extractor returns "unit{N}_{field}" -> local
\* paths
ExtractCutouts ==
    /\ pc = "extract"
    /\ cutout_paths' \in CutoutPathChoices
    /\ pc' = "upload"
    /\ UNCHANGED <<contract_result, installment_result, s3_cutout_paths,
                   merged_units, missing, bucket_name, merged_output,
                   upload_returned>>

\* lines 62-72: the unit index and the field name of a key "unit{N}_{field}"
key_parts(fk) ==
    CHOOSE parts \in (1..MaxUnits) \X MergeFields :
        field_key(parts[1], parts[2]) = fk

\* lines 77-99: the URI upload_file_from_path returns for a .png file of the
\* key
s3_uri(fk, bucket) ==
    "s3://" \o bucket \o "/contracts/" \o job_id \o "/images/unit_"
    \o ToString(key_parts(fk)[1]) \o "/" \o key_parts(fk)[2] \o ".png"

\* variant of upload_cutouts_to_s3: a key without an uploaded file is left
\* out of the result
upload_cutouts_to_s3_drops_empty(paths, bucket, failed) ==
    LET kept(k) == SelectSeq(paths[k], LAMBDA local_path : local_path \notin failed)
    IN  [k \in {x \in DOMAIN paths : kept(x) # <<>>} |->
            [i \in 1..Len(kept(k)) |-> s3_uri(k, bucket)]]

\* lines 52-109: the result of upload_cutouts_to_s3 when the uploads of the
\* files in `failed` raise
upload_cutouts_to_s3(paths, bucket, failed) ==
    LET kept(k) == SelectSeq(paths[k], LAMBDA local_path : local_path \notin failed)
    IN  [k \in DOMAIN paths |-> [i \in 1..Len(kept(k)) |-> s3_uri(k, bucket)]]

LocalPaths(paths) == UNION {{paths[k][i] : i \in 1..Len(paths[k])} : k \in DOMAIN paths}

\* lines 785-845: the cutouts are uploaded if a bucket was given; S3Provider()
\* may raise (s3_provider.py:136), and any single upload may fail; the
\* manifest and the report are written from final_cutout_paths and
\* combined_result
UploadCutouts ==
    /\ pc = "upload"
    /\ IF IsFalsy(bucket_name)
       THEN /\ s3_cutout_paths' = NoPaths
            /\ upload_returned' = FALSE
       ELSE \/ /\ s3_cutout_paths' = NoPaths
               /\ upload_returned' = FALSE
            \/ \E failed \in SUBSET LocalPaths(cutout_paths) :
                  /\ s3_cutout_paths' =
                         upload_cutouts_to_s3(cutout_paths, bucket_name, failed)
                  /\ upload_returned' = TRUE
    /\ pc' = "step7"
    /\ UNCHANGED <<contract_result, installment_result, merged_units, missing,
                   bucket_name, cutout_paths, merged_output>>

\* variant of merge_condition: the upload is not looked at
merge_condition_bucket_only(bucket, s3_paths) == ~IsFalsy(bucket)

\* line 850: bucket_name and s3_cutout_paths is not None
merge_condition(bucket, s3_paths) == ~IsFalsy(bucket) /\ s3_paths # NoPaths

\* lines 850-856: merge_results_with_cutouts is called
BeginMerge ==
    /\ pc = "step7"
    /\ merge_condition(bucket_name, s3_cutout_paths)
    /\ merged_units' = <<>>
    /\ pc' = "loop"
    /\ UNCHANGED <<contract_result, installment_result, s3_cutout_paths,
                   missing, mainVars>>

\* lines 885-911: the merge is skipped and main returns
SkipMerge ==
    /\ pc = "step7"
    /\ ~merge_condition(bucket_name, s3_cutout_paths)
    /\ pc' = "main_done"
    /\ UNCHANGED <<contract_result, installment_result, s3_cutout_paths,
                   merged_units, missing, mainVars>>

\* lines 858-911: the merged payload is written and main returns
SaveMergedOutput ==
    /\ pc = "done"
    /\ merged_output' = <<[jobId |-> job_id, bucketName |-> bucket_name,
                           status |-> "success", units |-> merged_units]>>
    /\ pc' = "main_done"
    /\ UNCHANGED <<contract_result, installment_result, s3_cutout_paths,
                   merged_units, missing, bucket_name, cutout_paths,
                   upload_returned>>

\* main is entered with or without a bucket; the agents have returned
InitMain ==
    /\ InitCoverageInputs
    /\ bucket_name \in {None, "bucket"}
    /\ s3_cutout_paths = NoPaths
    /\ cutout_paths = EmptyDict
    /\ merged_output = <<>>
    /\ upload_returned = FALSE
    /\ merged_units = <<>>
    /\ pc = "coverage_contract"
    /\ InitNoDedupe
    /\ InitNoCoverage
    /\ InitNoHandler

\* the steps of main; lists that pass _log_chunk_coverage hold dicts only, so
\* that the merge of step 7 has nothing to raise on
NextMain ==
    \/ LogContractCoverage /\ UNCHANGED <<dedupeVars, mainVars, handlerVars>>
    \/ LogInstallmentCoverage
       /\ UNCHANGED <<dedupeVars, mainVars, handlerVars>>
    \/ RaiseInCoverage /\ UNCHANGED <<dedupeVars, mainVars, handlerVars>>
    \/ DisplayResults /\ UNCHANGED <<dedupeVars, handlerVars>>
    \/ CombineResults /\ UNCHANGED <<dedupeVars, handlerVars>>
    \/ RaiseInCombine /\ UNCHANGED <<dedupeVars, handlerVars>>
    \/ ExtractCutouts /\ UNCHANGED <<dedupeVars, handlerVars>>
    \/ UploadCutouts /\ UNCHANGED <<dedupeVars, handlerVars>>
    \/ BeginMerge /\ UNCHANGED <<dedupeVars, handlerVars>>
    \/ SkipMerge /\ UNCHANGED <<dedupeVars, handlerVars>>
    \/ ProcessUnit /\ UNCHANGED <<dedupeVars, missing, mainVars, handlerVars>>
    \/ Return /\ UNCHANGED <<dedupeVars, missing, mainVars, handlerVars>>
    \/ SaveMergedOutput /\ UNCHANGED <<dedupeVars, handlerVars>>

SpecMain == InitMain /\ [][NextMain]_vars

----------------------------------------------------------------------------
(* HTTPProvider.send_extraction_results, http_provider.py:20-89            *)

\* what requests.post (lines 63-68) can do: return a response, or raise
Response(status_code) == [kind |-> "Response", status_code |-> status_code]

Timeout == [kind |-> "Timeout"]

ConnectionError == [kind |-> "ConnectionError"]

OtherException == [kind |-> "Exception"]

PostOutcomes ==
    {Response(200), Response(204), Response(409), Response(500), Timeout,
     ConnectionError, OtherException}

\* response.raise_for_status() (line 69) raises HTTPError, a
\* RequestException that carries the response, for 4xx and 5xx
raise_for_status_raises(status_code) == status_code >= 400 /\ status_code < 600

\* the value send_extraction_results returns when requests.post does `post`;
\* every exception is caught by one of the handlers of lines 74-89
send_extraction_results(post) ==
    IF post.kind = "Response"
    THEN IF raise_for_status_raises(post.status_code)
         THEN \* lines 77-86: e.response is the response
              post.status_code = 409
         ELSE \* line 72
              TRUE
    ELSE IF post.kind = "Timeout"
    THEN \* lines 74-76
         FALSE
    ELSE IF post.kind = "ConnectionError"
    THEN \* lines 77-86 with e.response None
         FALSE
    ELSE \* lines 87-89
         FALSE

----------------------------------------------------------------------------
(* handler, main.py:356-488, and send_extraction_results_to_endpoint,      *)
(* main.py:312-352                                                         *)

\* bool(x) of a str or None
IsTruthy(x) == ~IsFalsy(x)

\* lines 338-346: the payload of a notification
notification_payload(id, path, status, error_message, error_type) ==
    LET base == [contract_id |-> id, output_path |-> path, status |-> status]
        with_message == IF IsTruthy(error_message)
                        THEN DictSet(base, "error_message", error_message)
                        ELSE base
    IN  IF IsTruthy(error_type)
        THEN DictSet(with_message, "error_type", error_type)
        ELSE with_message

\* lines 338-352: the request posted for the record being processed, and what
\* send_extraction_results returned for it
Notification(payload, post) ==
    [record |-> record_idx, payload |-> payload, post |-> post,
     result |-> send_extraction_results(post)]

\* `if api_url and api_key` (lines 424, 450, 476)
api_configured == IsTruthy(Get(env, "API_URL")) /\ IsTruthy(Get(env, "API_KEY"))

\* the body of an SQS record: text that json.loads parses to `value`, or
\* text that is not JSON, for which json.loads raises
JsonText(value) == [valid |-> TRUE, value |-> value]

NotJson == [valid |-> FALSE, value |-> EmptyDict]

json_loads_raises(body) == ~body.valid

json_loads(body) == body.value

\* lines 364-368: S3_BUCKET_NAME is not set
RaiseNoBucket ==
    /\ hpc = "start"
    /\ IsFalsy(Get(env, "S3_BUCKET_NAME"))
    /\ hpc' = "raised"
    /\ UNCHANGED <<env, event, record_idx, contract_id, output_path, sent,
                   outcomes>>

\* lines 370-384: the loop over event['Records'] starts
StartRecords ==
    /\ hpc = "start"
    /\ IsTruthy(Get(env, "S3_BUCKET_NAME"))
    /\ record_idx' = 1
    /\ hpc' = "record"
    /\ UNCHANGED <<env, event, contract_id, output_path, sent, outcomes>>

\* lines 385-405: the message of the record is parsed and checked
ParseRecord ==
    /\ hpc = "record"
    /\ record_idx <= Len(event.Records)
    /\ output_path' = None
    /\ LET body == event.Records[record_idx].body
           message == json_loads(body)
       IN  IF json_loads_raises(body) \/ ~IsDict(message)
           THEN \* json.loads or message.get raises: line 471
                /\ contract_id' = None
                /\ hpc' = "record_error"
                /\ outcomes' = Append(outcomes, "bad_body")
                /\ UNCHANGED record_idx
           ELSE /\ contract_id' = Get(message, "contract_id")
                /\ IF IsFalsy(Get(message, "file_key"))
                      \/ IsFalsy(Get(message, "contract_id"))
                   THEN \* lines 393-399: continue
                        /\ record_idx' = record_idx + 1
                        /\ outcomes' = Append(outcomes, "skipped")
                        /\ UNCHANGED hpc
                   ELSE /\ hpc' = "download"
                        /\ UNCHANGED <<record_idx, outcomes>>
    /\ UNCHANGED <<env, event, sent>>

\* lines 407-413: download_file_to_path returns, or raises (s3_provider.py
\* 348-365) before output_path is assigned
DownloadFile ==
    /\ hpc = "download"
    /\ \E raised \in BOOLEAN :
          IF raised
          THEN /\ hpc' = "record_error"
               /\ outcomes' = Append(outcomes, "download_failed")
               /\ UNCHANGED output_path
          ELSE /\ output_path' = "contracts/" \o contract_id \o "/"
               /\ hpc' = "main"
               /\ UNCHANGED outcomes
    /\ UNCHANGED <<env, event, record_idx, contract_id, sent>>

\* variant of after_main: the exception of main is swallowed
after_main_swallow(raised) == "notify_success"

\* lines 416-441: where control goes when main returned or raised
after_main(raised) == IF raised THEN "notify_error" ELSE "notify_success"

\* lines 417-421: main returns or raises an Exception
RunMain ==
    /\ hpc = "main"
    /\ \E raised \in BOOLEAN :
          /\ hpc' = after_main(raised)
          /\ outcomes' = Append(outcomes, IF raised THEN "main_raised"
                                          ELSE "main_returned")
    /\ UNCHANGED <<env, event, record_idx, contract_id, output_path, sent>>

\* lines 423-439 and the finally of lines 465-469
NotifySuccess ==
    /\ hpc = "notify_success"
    /\ IF api_configured
       THEN \E post \in PostOutcomes :
               sent' = Append(sent, Notification(
                          notification_payload(contract_id, output_path,
                                               "success", None, None), post))
       ELSE UNCHANGED sent
    /\ record_idx' = record_idx + 1
    /\ hpc' = "record"
    /\ UNCHANGED <<env, event, contract_id, output_path, outcomes>>

\* lines 441-463 and the finally of lines 465-469
NotifyError ==
    /\ hpc = "notify_error"
    /\ IF api_configured
       THEN \E post \in PostOutcomes :
               sent' = Append(sent, Notification(
                          notification_payload(contract_id, output_path,
                                               "error", "main failed",
                                               "RuntimeError"), post))
       ELSE UNCHANGED sent
    /\ record_idx' = record_idx + 1
    /\ hpc' = "record"
    /\ UNCHANGED <<env, event, contract_id, output_path, outcomes>>

\* variant of after_record_error: the exception is raised again
after_record_error_reraise(idx) == [record_idx |-> idx, hpc |-> "raised"]

\* line 488: continue with the next record
after_record_error(idx) == [record_idx |-> idx + 1, hpc |-> "record"]

\* lines 471-488: the handler of an exception raised outside the inner try
RecordError ==
    /\ hpc = "record_error"
    /\ IF IsTruthy(contract_id) /\ IsTruthy(output_path) /\ api_configured
       THEN \E post \in PostOutcomes :
               sent' = Append(sent, Notification(
                          notification_payload(contract_id, output_path,
                                               "error", "record failed",
                                               "Exception"), post))
       ELSE UNCHANGED sent
    /\ record_idx' = after_record_error(record_idx).record_idx
    /\ hpc' = after_record_error(record_idx).hpc
    /\ UNCHANGED <<env, event, contract_id, output_path, outcomes>>

\* the loop of line 384 is exhausted and handler returns
HandlerReturn ==
    /\ hpc = "record"
    /\ record_idx > Len(event.Records)
    /\ hpc' = "done"
    /\ UNCHANGED <<env, event, record_idx, contract_id, output_path, sent,
                   outcomes>>

\* messages with and without file_key and contract_id
Messages ==
    {[file_key |-> "in/a.pdf", contract_id |-> "c-1"],
     [file_key |-> "in/b.pdf", contract_id |-> "c-2"],
     [k \in {"contract_id"} |-> "c-1"],
     [k \in {"file_key"} |-> "in/a.pdf"],
     [file_key |-> "", contract_id |-> "c-2"]}

Bodies ==
    {JsonText(m) : m \in Messages} \cup {JsonText(NotADict("list")), NotJson}

Environments ==
    {[S3_BUCKET_NAME |-> "bucket", API_URL |-> "https://api", API_KEY |-> "k"],
     [S3_BUCKET_NAME |-> "bucket", API_URL |-> "https://api"],
     [S3_BUCKET_NAME |-> "bucket"],
     [API_URL |-> "https://api", API_KEY |-> "k"]}

InitHandler ==
    /\ env \in Environments
    /\ event \in {[Records |-> r] :
                     r \in SeqsUpTo({[body |-> b] : b \in Bodies}, MaxRecords)}
    /\ record_idx = 0
    /\ hpc = "start"
    /\ contract_id = None
    /\ output_path = None
    /\ sent = <<>>
    /\ outcomes = <<>>
    /\ InitNoMerge
    /\ InitNoDedupe
    /\ InitNoCoverage
    /\ InitNoMain

NextHandler ==
    \/ RaiseNoBucket /\ UNCHANGED <<mergeVars, dedupeVars, missing, mainVars>>
    \/ StartRecords /\ UNCHANGED <<mergeVars, dedupeVars, missing, mainVars>>
    \/ ParseRecord /\ UNCHANGED <<mergeVars, dedupeVars, missing, mainVars>>
    \/ DownloadFile /\ UNCHANGED <<mergeVars, dedupeVars, missing, mainVars>>
    \/ RunMain /\ UNCHANGED <<mergeVars, dedupeVars, missing, mainVars>>
    \/ NotifySuccess /\ UNCHANGED <<mergeVars, dedupeVars, missing, mainVars>>
    \/ NotifyError /\ UNCHANGED <<mergeVars, dedupeVars, missing, mainVars>>
    \/ RecordError /\ UNCHANGED <<mergeVars, dedupeVars, missing, mainVars>>
    \/ HandlerReturn /\ UNCHANGED <<mergeVars, dedupeVars, missing, mainVars>>

SpecHandler == InitHandler /\ [][NextHandler]_vars

----------------------------------------------------------------------------
(* Properties of dedupe_sources                                            *)

\* the list dedupe_sources iterated over
DedupeInput == OrEmpty(sources)

\* positions of the input whose key did not occur at an earlier position
FirstPositions ==
    {i \in 1..Len(DedupeInput) :
        \A j \in 1..(i - 1) :
            source_key(DedupeInput[j]) # source_key(DedupeInput[i])}

\* C5: dedupe_sources returns exactly the first occurrence of each distinct
\* (field, chunk_id) key of its input, in input order; every key of the input
\* occurs exactly once in the output, so citations of one field with
\* different chunk_id are all kept.
C5_DedupeFirstOccurrences ==
    dpc # "call" =>
        /\ Len(filtered) = Cardinality(FirstPositions)
        /\ \A k \in 1..Len(filtered) :
               \E i \in FirstPositions :
                   /\ Cardinality({j \in FirstPositions : j <= i}) = k
                   /\ filtered[k] = DedupeInput[i]
        /\ \A i \in 1..Len(DedupeInput) :
               Cardinality({k \in 1..Len(filtered) :
                   source_key(filtered[k]) = source_key(DedupeInput[i])}) = 1

\* a duplicate that differs from its first occurrence was dropped, and two
\* citations of one field with different chunk_id were both kept
C5_Witness ==
    /\ dpc = "again"
    /\ Len(filtered) = 3
    /\ \E i, j \in 1..Len(DedupeInput) :
           /\ i < j
           /\ source_key(DedupeInput[i]) = source_key(DedupeInput[j])
           /\ DedupeInput[i] # DedupeInput[j]
    /\ \E k, l \in 1..Len(filtered) :
           /\ Get(filtered[k], "field") = Get(filtered[l], "field")
           /\ Get(filtered[k], "chunk_id") = "c1"
           /\ Get(filtered[l], "chunk_id") = "c2"

\* C6: dedupe_sources is idempotent: applied to its own output (for every
\* input list, the empty list and None included) it returns that output.
C6_DedupeIdempotent ==
    dpc = "done" => refiltered = filtered

\* the second call ran on the output of a call that removed something
C6_Witness ==
    /\ dpc = "done"
    /\ Len(filtered) >= 2
    /\ Len(filtered) < Len(DedupeInput)

\* C7: a missing or None chunk_id is an ordinary key component: citations of
\* one field that all lack a chunk_id collapse to the first of them, and a
\* citation lacking a chunk_id is not collapsed with a citation of the same
\* field that has one.
C7_DedupeNullChunkId ==
    dpc # "call" =>
        \A i, j \in 1..Len(DedupeInput) :
            LET a == DedupeInput[i]
                b == DedupeInput[j]
                kept(c) == {k \in 1..Len(filtered) :
                               source_key(filtered[k]) = source_key(c)}
                first == CHOOSE m \in FirstPositions :
                             source_key(DedupeInput[m]) = source_key(a)
            IN  (i < j /\ Get(a, "field") = Get(b, "field")
                       /\ Get(a, "chunk_id") = None) =>
                    IF Get(b, "chunk_id") = None
                    THEN /\ Cardinality(kept(a)) = 1
                         /\ \A k \in kept(a) : filtered[k] = DedupeInput[first]
                    ELSE /\ Cardinality(kept(a)) = 1
                         /\ Cardinality(kept(b)) = 1
                         /\ kept(a) # kept(b)

\* a citation without the chunk_id key, one with chunk_id None and one with
\* an identifier, all of one field: the first two collapsed, the third stayed
C7_Witness ==
    /\ dpc = "again"
    /\ Len(DedupeInput) = 3
    /\ Len(filtered) = 2
    /\ \E i, j, l \in 1..3 :
           /\ "chunk_id" \notin DOMAIN DedupeInput[i]
           /\ "chunk_id" \in DOMAIN DedupeInput[j]
           /\ DedupeInput[j]["chunk_id"] = None
           /\ Get(DedupeInput[l], "chunk_id") = "c1"
           /\ Get(DedupeInput[i], "field") = Get(DedupeInput[j], "field")
           /\ Get(DedupeInput[i], "field") = Get(DedupeInput[l], "field")

----------------------------------------------------------------------------
(* Properties of merge_results_with_cutouts                                *)

\* the citations of a unit record, as dedupe_sources iterates over them
CitationsOf(unit) == OrEmpty(DictGet(unit, "sources", EmptyList))

KeySeq(l) == [i \in 1..Len(l) |-> source_key(l[i])]

KeySet(l) == {source_key(l[i]) : i \in 1..Len(l)}

\* the keys of a sequence of keys in order of first occurrence
RECURSIVE DistinctInOrder(_)
DistinctInOrder(ks) ==
    IF ks = <<>> THEN <<>>
    ELSE LET front == DistinctInOrder(SubSeq(ks, 1, Len(ks) - 1))
             last == ks[Len(ks)]
         IN  IF \E i \in 1..Len(front) : front[i] = last
             THEN front ELSE Append(front, last)

\* the Pass-B citations of the unit at 1-based position u (none without a
\* Pass-B unit at that position)
InstallmentCitationsAt(u) ==
    IF u <= Len(installment_result)
    THEN CitationsOf(installment_result[u]) ELSE <<>>

\* C1: in every merged unit no two entries of the sources list have the same
\* (field, chunk_id) pair.
C1_MergedSourceKeysUnique ==
    \A u \in 1..Len(merged_units) :
        LET srcs == merged_units[u].sources
        IN  \A i, j \in 1..Len(srcs) :
                i # j => source_key(srcs[i]) # source_key(srcs[j])

\* C2: for a unit present in both passes the number of merged sources is the
\* number of distinct Pass-A keys plus the number of distinct Pass-B keys
\* minus the number of keys in both, so that no Pass-B citation with a key
\* absent from Pass-A is dropped.
C2_NoCitationLoss ==
    \A u \in 1..Len(merged_units) :
        u <= Len(installment_result) =>
            LET a == KeySet(CitationsOf(contract_result[u]))
                b == KeySet(CitationsOf(installment_result[u]))
            IN  Len(merged_units[u].sources) =
                    Cardinality(a) + Cardinality(b) - Cardinality(a \cap b)

\* C3: the returned list has exactly len(contract_result) units, whatever the
\* length of installment_result.
C3_UnitCountIsContractCount ==
    pc = "done" => Len(merged_units) = Len(contract_result)

\* the merge returned for a Pass-B list longer than a non-empty Pass-A list
C3_Witness ==
    /\ pc = "done"
    /\ Len(contract_result) >= 1
    /\ Len(installment_result) > Len(contract_result)
    /\ Len(merged_units) = Len(contract_result)

\* C4 as stated: the returned list has max(len(Pass-A), len(Pass-B)) units, a
\* unit present only in Pass-B being emitted too.
C4_UnitCountIsMax ==
    pc = "done" =>
        Len(merged_units) = Max(Len(contract_result), Len(installment_result))

\* C4 amended: a position of either input list is emitted exactly when it is
\* a position of the Pass-A list; a unit present only in Pass-A is emitted,
\* a unit present only in Pass-B is not.
C4_UnitsAreContractPositions ==
    pc = "done" =>
        \A u \in 1..Max(Len(contract_result), Len(installment_result)) :
            (u <= Len(merged_units)) <=> (u <= Len(contract_result))

\* the merge returned one unit for one Pass-A unit and two Pass-B units
C4_Witness ==
    /\ pc = "done"
    /\ Len(contract_result) = 1
    /\ Len(installment_result) = 2
    /\ Len(merged_units) = 1

\* C8: when the Pass-B unit of the same position has a non-empty
\* installmentPlans, the merged installmentPlans is Pass-B's collection and
\* every other merged field is the Pass-A field of that name, with no field
\* added.
C8_InstallmentPlansOverwrite ==
    \A u \in 1..Len(merged_units) :
        u <= Len(installment_result) =>
            LET a == DictGet(contract_result[u], "unit", EmptyDict)
                b == DictGet(installment_result[u], "unit", EmptyDict)
                m == merged_units[u].unit
            IN  ("installmentPlans" \in DOMAIN b /\ b["installmentPlans"] # <<>>)
                =>  /\ DOMAIN m = DOMAIN a \cup {"installmentPlans"}
                    /\ m["installmentPlans"] = b["installmentPlans"]
                    /\ \A k \in DOMAIN a \ {"installmentPlans"} : m[k] = a[k]

\* Pass-A has installmentPlans [X] and buyerName Ana, Pass-B has
\* installmentPlans [Y, Z] and buyerName Bob: the merged unit has [Y, Z], Ana
C8_Witness ==
    /\ Len(merged_units) = 1
    /\ Len(installment_result) = 1
    /\ DictGet(contract_result[1], "unit", EmptyDict)
           = [buyerName |-> "Ana", installmentPlans |-> <<"X">>]
    /\ DictGet(installment_result[1], "unit", EmptyDict)
           = [buyerName |-> "Bob", installmentPlans |-> <<"Y", "Z">>]
    /\ merged_units[1].unit
           = [buyerName |-> "Ana", installmentPlans |-> <<"Y", "Z">>]

\* C9: the merged confidence map has the keys of Pass-A's and Pass-B's maps
\* and no other; a key of Pass-B's map has Pass-B's value, a key only in
\* Pass-A's map has Pass-A's value.
C9_ConfidencePrecedence ==
    \A u \in 1..Len(merged_units) :
        LET a == DictGet(contract_result[u], "confidence", EmptyDict)
            b == IF u <= Len(installment_result)
                 THEN DictGet(installment_result[u], "confidence", EmptyDict)
                 ELSE EmptyDict
            m == merged_units[u].confidence
        IN  /\ DOMAIN m = DOMAIN a \cup DOMAIN b
            /\ \A k \in DOMAIN b : m[k] = b[k]
            /\ \A k \in DOMAIN a \ DOMAIN b : m[k] = a[k]

\* {f1: high, f2: low} merged with {f1: medium, f3: high}
C9_Witness ==
    /\ Len(merged_units) = 1
    /\ Len(installment_result) = 1
    /\ DictGet(contract_result[1], "confidence", EmptyDict)
           = [f1 |-> "high", f2 |-> "low"]
    /\ DictGet(installment_result[1], "confidence", EmptyDict)
           = [f1 |-> "medium", f3 |-> "high"]
    /\ merged_units[1].confidence
           = [f1 |-> "medium", f2 |-> "low", f3 |-> "high"]

\* C10: the merged sources are the deduplicated Pass-A citations in Pass-A
\* order followed by the deduplicated Pass-B citations whose key is not
\* accumulated yet, in Pass-B order: one entry for each distinct key of the
\* Pass-A citations followed by the Pass-B citations, in order of first
\* occurrence, a Pass-B citation being skipped only for a key already there.
C10_MergedSourcesOrder ==
    \A u \in 1..Len(merged_units) :
        LET expected ==
                DistinctInOrder(KeySeq(CitationsOf(contract_result[u]))
                                \o KeySeq(InstallmentCitationsAt(u)))
            srcs == merged_units[u].sources
        IN  /\ Len(srcs) = Len(expected)
            /\ \A k \in 1..Len(srcs) :
                   k <= Len(expected) =>
                       /\ srcs[k]["field"] = expected[k][1]
                       /\ "chunk_id" \in DOMAIN srcs[k] =>
                              srcs[k]["chunk_id"] = expected[k][2]

----------------------------------------------------------------------------
(* Resolution of citations to artifact locators                            *)

\* the locators the artifact map holds for a field of the unit at 1-based
\* position u (the empty list without an entry)
LocatorsFor(u, field) ==
    LET key == "unit" \o ToString(u) \o "_" \o field
    IN  IF key \in DOMAIN s3_cutout_paths THEN s3_cutout_paths[key] ELSE <<>>

\* the distinct keys of the Pass-A citations of position u, in order
ContractKeysAt(u) == DistinctInOrder(KeySeq(CitationsOf(contract_result[u])))

\* the deduplicated Pass-B citations of position u whose key is not a key of
\* a Pass-A citation of that position
InstallmentOnlyKeysAt(u) ==
    LET a == KeySet(CitationsOf(contract_result[u]))
    IN  SelectSeq(DistinctInOrder(KeySeq(InstallmentCitationsAt(u))),
                  LAMBDA k : k \notin a)

\* C11: a citation of a field whose artifact-map entry "unit{i+1}_{field}" is
\* a non-empty list has the first element of that list as chunk_file_key,
\* never a later one, whether it came from Pass-A or from Pass-B.
C11_ArtifactFirstWins ==
    \A u \in 1..Len(merged_units) :
        LET srcs == merged_units[u].sources
        IN  \A k \in 1..Len(srcs) :
                LET locs == LocatorsFor(u, srcs[k]["field"])
                IN  locs # <<>> =>
                        /\ srcs[k]["chunk_file_key"] = locs[1]
                        /\ \A j \in 2..Len(locs) :
                               srcs[k]["chunk_file_key"] # locs[j]

\* a Pass-A entry and a Pass-B entry of one unit were both resolved to the
\* first of two locators
C11_Witness ==
    /\ Len(merged_units) = 1
    /\ \E k, l \in 1..Len(merged_units[1].sources) :
           LET a == merged_units[1].sources[k]
               b == merged_units[1].sources[l]
           IN  /\ "chunk_id" \in DOMAIN a
               /\ "chunk_id" \notin DOMAIN b
               /\ Len(LocatorsFor(1, a["field"])) = 2
               /\ Len(LocatorsFor(1, b["field"])) = 2
               /\ a["chunk_file_key"] = LocatorsFor(1, a["field"])[1]
               /\ b["chunk_file_key"] = LocatorsFor(1, b["field"])[1]

\* C12: a Pass-A citation whose artifact-map entry is missing or empty has
\* its chunk_id as chunk_file_key, except that the chunk_id "calculated"
\* gives None; a None chunk_id gives None.
C12_ContractFallback ==
    \A u \in 1..Len(merged_units) :
        LET srcs == merged_units[u].sources
            keys == ContractKeysAt(u)
        IN  /\ Len(srcs) >= Len(keys)
            /\ \A k \in 1..Len(keys) :
                   LocatorsFor(u, keys[k][1]) = <<>> =>
                       srcs[k]["chunk_file_key"] =
                           IF keys[k][2] = "calculated" THEN None
                           ELSE keys[k][2]

\* without artifacts, a Pass-A citation with chunk_id "calculated" got None
\* and one with chunk_id c1 got c1
C12_Witness ==
    /\ Len(merged_units) = 1
    /\ s3_cutout_paths = EmptyDict
    /\ Len(merged_units[1].sources) >= 2
    /\ merged_units[1].sources[1] =
           [field |-> "total", chunk_id |-> "calculated",
            chunk_file_key |-> None]
    /\ merged_units[1].sources[2] =
           [field |-> "total", chunk_id |-> "c1", chunk_file_key |-> "c1"]

\* the entries of the merged sources of position u that follow the Pass-A
\* entries
InstallmentEntriesAt(u) ==
    SubSeq(merged_units[u].sources, Len(ContractKeysAt(u)) + 1,
           Len(merged_units[u].sources))

\* C13: a citation contributed only by Pass-B whose artifact-map entry is
\* missing or empty has its chunk_id, unchanged, as chunk_file_key: every
\* such entry carries the chunk_id of a Pass-B-only citation of its field,
\* and every Pass-B-only citation with an identifier, the literal
\* "calculated" included, has an entry carrying that identifier.
C13_InstallmentFallback ==
    \A u \in 1..Len(merged_units) :
        LET entries == InstallmentEntriesAt(u)
            keys == InstallmentOnlyKeysAt(u)
        IN  /\ \A k \in 1..Len(entries) :
                   LocatorsFor(u, entries[k]["field"]) = <<>> =>
                       \E j \in 1..Len(keys) :
                           /\ keys[j][1] = entries[k]["field"]
                           /\ keys[j][2] = entries[k]["chunk_file_key"]
            /\ \A j \in 1..Len(keys) :
                   (LocatorsFor(u, keys[j][1]) = <<>> /\ keys[j][2] # None) =>
                       Cardinality({k \in 1..Len(entries) :
                           /\ entries[k]["field"] = keys[j][1]
                           /\ entries[k]["chunk_file_key"] = keys[j][2]}) = 1

\* the same citation (total, calculated) came from Pass-A in one run and from
\* Pass-B alone in this one, where it kept "calculated"
C13_Witness ==
    /\ Len(merged_units) = 1
    /\ s3_cutout_paths = EmptyDict
    /\ CitationsOf(contract_result[1]) = <<>>
    /\ merged_units[1].sources =
           <<[field |-> "total", chunk_file_key |-> "calculated"]>>

----------------------------------------------------------------------------
(* Units without a counterpart, arguments, errors                          *)

\* the entry a Pass-A citation with the given key is resolved to at position u
ExpectedContractEntry(u, key) ==
    [field |-> key[1], chunk_id |-> key[2],
     chunk_file_key |->
         IF LocatorsFor(u, key[1]) # <<>> THEN LocatorsFor(u, key[1])[1]
         ELSE IF key[2] = "calculated" THEN None ELSE key[2]]

\* C14: a unit at an index >= len(installment_result) is built from Pass-A
\* alone: its fields and its confidence are Pass-A's, its sources are the
\* resolved deduplicated Pass-A citations, and the merge does not raise at
\* such a unit.
C14_ContractOnlyUnit ==
    /\ \A u \in 1..Len(merged_units) :
           u > Len(installment_result) =>
               LET keys == ContractKeysAt(u)
               IN  /\ merged_units[u].unit =
                          DictGet(contract_result[u], "unit", EmptyDict)
                   /\ merged_units[u].confidence =
                          DictGet(contract_result[u], "confidence", EmptyDict)
                   /\ merged_units[u].sources =
                          [k \in 1..Len(keys) |->
                              ExpectedContractEntry(u, keys[k])]
    /\ pc = "raised" =>
           ~ /\ unit_idx >= Len(installment_result)
             /\ IsDict(contract_result[unit_idx + 1])

\* the second of two Pass-A units was merged with a single Pass-B unit given:
\* it kept its own installmentPlans, confidence and two citations
C14_Witness ==
    /\ pc = "done"
    /\ Len(merged_units) = 2
    /\ Len(installment_result) = 1
    /\ DictGet(DictGet(installment_result[1], "unit", EmptyDict),
               "installmentPlans", <<>>) = <<"Y", "Z">>
    /\ merged_units[2].unit =
           [buyerName |-> "Ana", installmentPlans |-> <<"X">>]
    /\ merged_units[2].confidence = [f1 |-> "high", f2 |-> "low"]
    /\ Len(merged_units[2].sources) = 2

\* C15: merge_results_with_cutouts leaves contract_result,
\* installment_result and s3_cutout_paths, with everything in them, as they
\* were at the call, also when Pass-B overwrites installmentPlans and merges
\* confidence into the result.
C15_ArgumentsUnchanged ==
    [][/\ contract_result' = contract_result
       /\ installment_result' = installment_result
       /\ s3_cutout_paths' = s3_cutout_paths]_vars

\* the result has Pass-B's installmentPlans and a merged confidence map while
\* the Pass-A unit still has its own
C15_Witness ==
    /\ pc = "done"
    /\ Len(merged_units) = 1
    /\ merged_units[1].unit =
           [buyerName |-> "Ana", installmentPlans |-> <<"Y", "Z">>]
    /\ merged_units[1].confidence = [f1 |-> "medium", f2 |-> "low"]
    /\ contract_result[1]["unit"] =
           [buyerName |-> "Ana", installmentPlans |-> <<"X">>]
    /\ contract_result[1]["confidence"] = [f1 |-> "high", f2 |-> "low"]

\* C16: every entry of the merged sources carries field and chunk_file_key,
\* and carries the chunk_id of the citation it came from when that citation
\* had one, for Pass-A and for Pass-B citations.
C16_EntriesCarryChunkId ==
    \A u \in 1..Len(merged_units) :
        LET srcs == merged_units[u].sources
            carried(key) ==
                \E k \in 1..Len(srcs) :
                    /\ srcs[k]["field"] = key[1]
                    /\ "chunk_id" \in DOMAIN srcs[k]
                    /\ srcs[k]["chunk_id"] = key[2]
        IN  /\ \A k \in 1..Len(srcs) :
                   {"field", "chunk_file_key"} \subseteq DOMAIN srcs[k]
            /\ \A j \in 1..Len(ContractKeysAt(u)) :
                   ContractKeysAt(u)[j][2] # None =>
                       carried(ContractKeysAt(u)[j])
            /\ \A j \in 1..Len(InstallmentOnlyKeysAt(u)) :
                   InstallmentOnlyKeysAt(u)[j][2] # None =>
                       carried(InstallmentOnlyKeysAt(u)[j])

AllUnitsAreDicts ==
    /\ \A i \in 1..Len(contract_result) : IsDict(contract_result[i])
    /\ \A i \in 1..Len(installment_result) : IsDict(installment_result[i])

\* C17: with dict unit records the merge does not raise: not for a unit
\* without Pass-B counterpart, an artifact map without entry or with an empty
\* list, a chunk_id that is missing, None or "calculated", a sources list
\* that is missing, None or empty, or confidence maps with different keys.
C17_NoRaiseForDicts ==
    AllUnitsAreDicts => pc # "raised"

\* the merge returned for a Pass-A unit whose sources is None, a Pass-B unit
\* citing "calculated" and None, an empty artifact list, and confidence maps
\* with different keys
C17_Witness ==
    /\ pc = "done"
    /\ Len(merged_units) = 1
    /\ Len(installment_result) = 1
    /\ "sources" \in DOMAIN contract_result[1]
    /\ contract_result[1]["sources"].null
    /\ KeySet(CitationsOf(installment_result[1])) =
           {<<"total", "calculated">>, <<"total", None>>}
    /\ "unit1_total" \in DOMAIN s3_cutout_paths
    /\ s3_cutout_paths["unit1_total"] = <<>>
    /\ DOMAIN DictGet(contract_result[1], "confidence", EmptyDict) #
           DOMAIN DictGet(installment_result[1], "confidence", EmptyDict)

\* C18: if a unit record of either input list is not a dict, the merge raises
\* and returns no list; the record is not skipped or taken as an empty unit.
C18_MalformedUnitRaises ==
    ~AllUnitsAreDicts => pc # "done"

----------------------------------------------------------------------------
(* Properties of _log_chunk_coverage                                       *)

\* C19: _log_chunk_coverage only reads: a call leaves the list it was given,
\* and every unit and citation in it, unchanged, so that the merge that
\* follows works on the lists as they were.
C19_CoverageOnlyReads ==
    [][(pc \in {"coverage_contract", "coverage_installment"}) =>
           (contract_result' = contract_result
            /\ installment_result' = installment_result)]_vars

\* both calls reported citations without chunk_id, and the merge returned
\* entries for those citations
C19_Witness ==
    /\ pc = "done"
    /\ Len(missing.contract) >= 2
    /\ Len(missing.installment) >= 1
    /\ Len(merged_units) >= 1
    /\ Len(merged_units[Len(merged_units)].sources) >= 2

\* C20: _log_chunk_coverage does not raise for a list of dict units, however
\* many citations lack a chunk_id and also when the sources of a unit is
\* missing, None or empty.
C20_CoverageNeverRaises ==
    AllUnitsAreDicts => pc # "coverage_raised"

----------------------------------------------------------------------------
(* Fields without Pass-B plans, and the keys of the artifact map           *)

\* C23: when the Pass-B unit of the same position has an empty or missing
\* installmentPlans, the merged fields are exactly the Pass-A fields: a
\* Pass-A installmentPlans is kept, and none is added when Pass-A had none.
C23_EmptyPlansKeepContractFields ==
    \A u \in 1..Len(merged_units) :
        u <= Len(installment_result) =>
            LET b == DictGet(installment_result[u], "unit", EmptyDict)
            IN  ("installmentPlans" \notin DOMAIN b
                 \/ b["installmentPlans"] = <<>>)
                => merged_units[u].unit
                       = DictGet(contract_result[u], "unit", EmptyDict)

\* Pass-A has installmentPlans [X], Pass-B an empty installmentPlans: [X] is
\* kept
C23_Witness ==
    /\ Len(merged_units) = 1
    /\ Len(installment_result) = 1
    /\ DictGet(installment_result[1], "unit", EmptyDict)
           = [buyerName |-> "Bob", installmentPlans |-> <<>>]
    /\ merged_units[1].unit
           = [buyerName |-> "Ana", installmentPlans |-> <<"X">>]

\* the key of the artifact map an artifact rendered for (unit N, field) is
\* stored under
ArtifactKey(N, field) == "unit" \o ToString(N) \o "_" \o Str(field)

\* the keys of the artifact map that hold the locator
KeysHolding(locator) ==
    {k \in DOMAIN s3_cutout_paths :
        \E i \in 1..Len(s3_cutout_paths[k]) : s3_cutout_paths[k][i] = locator}

\* C25: the lookup keys of distinct (unit number, field name) pairs differ,
\* and a citation of field f in unit N is resolved only to an artifact stored
\* under the key of (N, f), never to an artifact of another unit or field.
C25_ArtifactOfOwnUnitAndField ==
    pc = "done" =>
        /\ \A N1, N2 \in 1..MaxUnits, f1, f2 \in MergeFields :
              <<N1, f1>> # <<N2, f2>> => field_key(N1, f1) # field_key(N2, f2)
        /\ \A u \in 1..Len(merged_units) :
              \A i \in 1..Len(merged_units[u].sources) :
                 LET entry == merged_units[u].sources[i]
                 IN  KeysHolding(entry.chunk_file_key)
                         \subseteq {ArtifactKey(u, entry.field)}

\* the artifact map has entries for the same field of two units, and the
\* citations of that field in the two units were resolved to different
\* artifacts
C25_Witness ==
    /\ pc = "done"
    /\ Len(merged_units) = 2
    /\ \E i \in 1..Len(merged_units[1].sources),
          j \in 1..Len(merged_units[2].sources) :
          /\ merged_units[1].sources[i].field = merged_units[2].sources[j].field
          /\ KeysHolding(merged_units[1].sources[i].chunk_file_key) # {}
          /\ KeysHolding(merged_units[2].sources[j].chunk_file_key) # {}
          /\ merged_units[1].sources[i].chunk_file_key
                 # merged_units[2].sources[j].chunk_file_key

----------------------------------------------------------------------------
(* Termination                                                             *)

\* the list the loop of line 222 builds, as a function of the three arguments
MergedFrom(contract, installment, s3_paths) ==
    [u \in 1..Len(contract) |->
        merge_unit(contract[u], u - 1, installment, s3_paths)]

----------------------------------------------------------------------------
(* Properties of main                                                      *)

\* the positions <<unit number, citation number>> of the citations of the
\* units whose chunk_id is missing, None or empty
PositionsWithoutChunkId(units) ==
    {p \in UNION {{<<u, j>> : j \in 1..Len(CitationsOf(units[u]))} :
                     u \in 1..Len(units)} :
        LET citation == CitationsOf(units[p[1]])[p[2]]
        IN  \/ "chunk_id" \notin DOMAIN citation
            \/ citation.chunk_id = None
            \/ citation.chunk_id = ""}

\* unit order, then citation order
Before(p, q) == p[1] < q[1] \/ (p[1] = q[1] /\ p[2] < q[2])

\* reported holds one pair <<unit number, field>> for each position without
\* chunk_id, in the order of the positions, and nothing else
ReportsExactly(reported, units) ==
    LET positions == PositionsWithoutChunkId(units)
        rank(p) == Cardinality({q \in positions : Before(q, p)}) + 1
    IN  /\ Len(reported) = Cardinality(positions)
        /\ \A p \in positions :
              reported[rank(p)]
                  = <<p[1], Get(CitationsOf(units[p[1]])[p[2]], "field")>>

\* C22: _log_chunk_coverage reports exactly the pairs (1-based unit number,
\* field) of the citations whose chunk_id is missing, None or empty, in unit
\* order then citation order; a citation with "calculated" or another
\* non-empty chunk_id is not reported.
C22_ReportsCitationsWithoutChunkId ==
    /\ pc = "coverage_installment"
           => ReportsExactly(missing.contract, contract_result)
    /\ pc = "display" => ReportsExactly(missing.installment, installment_result)

\* the call for a Pass-A list of two units reported the citation of unit 1
\* and one of the two citations of unit 2, whose other citation is
\* "calculated"
C22_Witness ==
    /\ pc = "coverage_installment"
    /\ missing.contract = <<<<1, "total">>, <<2, "buyerName">>>>
    /\ CitationsOf(contract_result[2])
           = <<[field |-> "buyerName", chunk_id |-> "calculated"],
               [field |-> "buyerName", chunk_id |-> ""]>>

\* C26: the Pass-A list handed to merge_results_with_cutouts at step 7 is the
\* value the agent returned at step 3: the display of the results, the
\* combination of step 5 and the report leave the sources, fields and
\* confidence of every Pass-A unit as they were.
C26_ContractResultUntouched ==
    [][(pc \in {"display", "combine", "extract", "upload", "step7"})
           => (contract_result' = contract_result)]_vars

\* the entries of the written payload whose artifact-map key lost every
\* upload
EntriesWithoutUpload ==
    IF merged_output = <<>> THEN {}
    ELSE LET units == merged_output[1].units
         IN  {e \in UNION {{<<u, units[u].sources[i]>> :
                               i \in 1..Len(units[u].sources)} :
                              u \in 1..Len(units)} :
                 LET k == ArtifactKey(e[1], e[2].field)
                 IN  /\ k \in DOMAIN cutout_paths
                     /\ cutout_paths[k] # <<>>
                     /\ s3_cutout_paths[k] = <<>>}

\* C30: the merge runs and the merged payload is written if and only if a
\* bucket name was given and upload_cutouts_to_s3 returned; a failed upload of
\* a file does not prevent it: every key of cutout_paths is a key of the
\* result, with an empty list when all its uploads failed, and the citations of
\* such a key fall back to their chunk_id (None for "calculated").
C30_MergeIffUploadReturned ==
    /\ (pc \in {"loop", "done"} \/ merged_output # <<>>)
           => (bucket_name # None /\ upload_returned)
    /\ pc = "main_done"
           => (merged_output # <<>> <=> (bucket_name # None /\ upload_returned))
    /\ upload_returned => DOMAIN s3_cutout_paths = DOMAIN cutout_paths
    /\ \A e \in EntriesWithoutUpload :
          e[2].chunk_file_key
              = IF Get(e[2], "chunk_id") = "calculated" THEN None
                ELSE Get(e[2], "chunk_id")

\* main returned with the payload written although every upload of the
\* buyerName cutouts of unit 1 failed; the upload for the field total
\* succeeded, and the buyerName citation fell back to its chunk_id
C30_Witness ==
    /\ pc = "main_done"
    /\ merged_output # <<>>
    /\ ArtifactKey(1, "total") \in DOMAIN s3_cutout_paths
    /\ s3_cutout_paths[ArtifactKey(1, "total")] # <<>>
    /\ \E e \in EntriesWithoutUpload :
          /\ e[2].field = "buyerName"
          /\ e[2].chunk_file_key = "c1"

----------------------------------------------------------------------------
(* Properties of the notifications and of handler                          *)

\* the backend answered the request with a 2xx status code
Answered2xx(post) ==
    /\ post.kind = "Response"
    /\ post.status_code >= 200
    /\ post.status_code < 300

\* C21: send_extraction_results returns True exactly when the backend
\* answered with a 2xx status code, and False for every other outcome.
C21_TrueExactlyFor2xx ==
    \A i \in 1..Len(sent) : sent[i].result = Answered2xx(sent[i].post)

\* the records whose loop body has ended
FinishedRecords ==
    {i \in 1..Len(event.Records) : i < record_idx \/ hpc = "done"}

\* C27: a record that fails (bad body, download failure, exception of main)
\* does not stop the batch: handler does not raise because of it, and when
\* handler returns every record of the event was processed.
C27_FailureDoesNotStopBatch ==
    /\ IsTruthy(Get(env, "S3_BUCKET_NAME")) => hpc # "raised"
    /\ Len(outcomes) <= Len(event.Records)
    /\ hpc = "done" => Len(outcomes) = Len(event.Records)

\* handler returned after a record failed in each of the three ways, or
\* after a failed record was followed by one that main processed
C27_Witness ==
    /\ hpc = "done"
    /\ Len(outcomes) = 2
    /\ outcomes[1] \in {"bad_body", "download_failed", "main_raised"}
    /\ outcomes[2] = "main_returned"

\* the notifications with the given status sent for record i
NotificationsOf(i, status) ==
    {j \in 1..Len(sent) : sent[j].record = i
                          /\ sent[j].payload.status = status}

\* C28: with API_URL and API_KEY set, a record that carries file_key and
\* contract_id and fails at the download or in main has an "error"
\* notification for its contract_id sent to the backend.
C28_FailureIsNotified ==
    \A i \in FinishedRecords :
        (api_configured /\ outcomes[i] \in {"download_failed", "main_raised"})
        => \E j \in NotificationsOf(i, "error") :
              sent[j].payload.contract_id
                  = json_loads(event.Records[i].body).contract_id

\* C29: a "success" notification for a record is sent only after main
\* returned without raising for that record.
C29_SuccessOnlyAfterMainReturned ==
    \A j \in 1..Len(sent) :
        sent[j].payload.status = "success"
        => /\ sent[j].record <= Len(outcomes)
           /\ outcomes[sent[j].record] = "main_returned"

\* main raised for the first record and returned for the second: one error
\* and one success notification were sent
C29_Witness ==
    /\ hpc = "done"
    /\ outcomes = <<"main_raised", "main_returned">>
    /\ NotificationsOf(1, "error") # {}
    /\ NotificationsOf(1, "success") = {}
    /\ NotificationsOf(2, "success") # {}

====
